---------------------------- MODULE Spec2Model ----------------------------
(***************************************************************************)
(* Verification model of jenkins-tui.                                      *)
(*                                                                         *)
(* Part I   - the protocol client (internal/jenkins/client.go): doRequest, *)
(*            fetchCrumb, the crumb cache and the shared rate limiter,     *)
(*            with several doRequest calls running concurrently.           *)
(*            Specification: Spec.                                         *)
(* Part II  - the token bucket on a time line (SpecLimiter).               *)
(* Part III - the application controller and its tab models: from          *)
(*            start-up (SpecApp, SpecSetup, SpecResubmit, SpecWizard) and  *)
(*            inside the views tab (SpecViews), the builds tab             *)
(*            (SpecBuilds) and the search input (SpecSearch).              *)
(* Part IV  - the auto-refresh timer on a time line (SpecTimer).           *)
(* Part V   - the dashboard model receiving its data (SpecMerge).          *)
(* Part VI  - one Client.GetJob call, request by request (SpecJob).        *)
(*                                                                         *)
(* Every specification constrains all variables; the variables of the      *)
(* other parts stay at their initial values.                               *)
(***************************************************************************)
EXTENDS Integers, Sequences, FiniteSets, Bags, TLC

(***************************************************************************)
(* Bounds                                                                  *)
(***************************************************************************)
\* number of doRequest calls issued on one Client
NumReq == 2
\* configured requests-per-second (capacity and refill rate of the limiter)
RPS == 2
\* requests issued to the limiter on the time line of Part II
MaxIssued == 5
\* Commands (fetches, timers) in flight at once in Part III
MaxPending == 5
\* length of the time line of the refresh timer in Part IV
MaxTime == 45
\* characters typed into one field of the setup wizard
MaxInput == 1
\* Messages merged into the dashboard model in Part V
MaxMerges == 6
\* the latest reading of the clock in Part V
MaxClock == 3
\* builds in the job detail that the server returns in Part VI
MaxBuilds == 11

Reqs == 1..NumReq

VARIABLES
  \* ---- Client (client.go:22-34)
  crumb,        \* c.crumb        ("" = none)
  crumbField,   \* c.crumbField   ("" = none)
  crumbTested,  \* c.crumbTested
  crumbMu,      \* c.crumbMu: 0 = free, r = write-locked by call r (fetchCrumb)
  tokens,       \* tokens in c.limiter
  \* ---- one record per doRequest call
  call,
  \* ---- history (observation only, never read by an action's guard)
  issuerCalls,  \* crumb-issuer GETs sent over the client's lifetime
  srvAll403     \* TRUE while every answer the server gave so far was 403

clientVars == <<crumb, crumbField, crumbTested, crumbMu, tokens, call,
                issuerCalls, srvAll403>>

VARIABLES
  \* ---- the limiter on a time line; one slot is 1/RPS second
  bucket,       \* tokens in the limiter
  waiting,      \* requests blocked in limiter.Wait
  issued,       \* requests issued so far
  slot,         \* slots elapsed since the client was created (saturates)
  window,       \* tokens consumed in each of the last RPS slots, newest first
  firstSecond,  \* tokens consumed in the first second
  atOnce        \* TRUE while all requests so far were issued at time 0

limVars == <<bucket, waiting, issued, slot, window, firstSecond, atOnce>>

VARIABLES
  \* ---- the application (internal/app)
  app,          \* the application Model with its three tab models
  pending,      \* bag of the Commands in flight
  \* ---- history (observation only)
  issuedDetail, \* job of the job-detail fetch the views tab issued last
  logFrom       \* builds tab in its log view: the mode key l was pressed in

appVars == <<app, pending, issuedDetail, logFrom>>

VARIABLES
  \* ---- the auto-refresh timer on a time line (model.go:240-246, 375-382)
  now,          \* the time
  tickAt,       \* when the armed tick fires
  loads,        \* completion times of the loads in flight
  settledAt     \* when a load settled last, -1 before the first

timerVars == <<now, tickAt, loads, settledAt>>

VARIABLES
  \* ---- the dashboard model receiving its data (Part V)
  dashboard,    \* the model and its lastUpdate
  clock,        \* the reading of time.Now()
  merged,       \* the Messages merged so far
  merges        \* how many merges took place

mergeVars == <<dashboard, clock, merged, merges>>

VARIABLES
  \* ---- one Client.GetJob call
  gj            \* its position, locals, result and the requests it made

jobVars == <<gj>>

vars == <<clientVars, limVars, appVars, timerVars, mergeVars, jobVars>>

(***************************************************************************)
(* Part I - protocol client                                                *)
(***************************************************************************)
Methods == {"GET", "POST"}

\* What one HTTP attempt can end in: 0 stands for a transport error
\* (httpClient.Do returns err, client.go:159), the rest are status codes.
Statuses == {0, 200, 401, 403, 500}

\* Bodies the crumb issuer can send with a 200: a decodable object (fields
\* may be missing, which decodes to ""), or something that does not decode.
IssuerBodies ==
  { [ok |-> TRUE,  crumb |-> "c1", field |-> "F"],
    [ok |-> TRUE,  crumb |-> "",   field |-> ""],
    [ok |-> FALSE, crumb |-> "",   field |-> ""] }

NoHeader == <<>>

\* client.go:143-151: the crumb header a request carries.
CrumbHeader(m, c, f) ==
  IF m # "GET" /\ c # "" /\ f # "" THEN <<f, c>> ELSE NoHeader

\* client.go:185: the 403 branch enters crumb negotiation.
ShouldNegotiateAnyMethod(tested, m) == ~tested
ShouldNegotiateAlways(tested, m) == m # "GET"
ShouldNegotiate(tested, m) == ~tested /\ m # "GET"

\* client.go:159-196: what doRequest does with the outcome of an attempt.
\*   "neterr" | "unauth" | "negotiate" | "forbidden" | "resp"
Classify(s, m, tested) ==
  CASE s = 0   -> "neterr"
    [] s = 401 -> "unauth"
    [] s = 403 -> IF ShouldNegotiate(tested, m) THEN "negotiate" ELSE "forbidden"
    [] OTHER   -> "resp"

\* client.go:208-235: does fetchCrumb return nil for this issuer answer?
\* The issuer GET goes through doRequest, so 401, 403 and transport errors
\* are errors already there (the method is GET: no negotiation).
FetchCrumbOk(s, b) ==
  /\ Classify(s, "GET", TRUE) = "resp"
  /\ s = 200
  /\ b.ok

\* client.go:190: the retry is a fresh doRequest call, so it starts at the
\* limiter again.
RetryEntryNoLimiter == "send"
RetryEntry == "wait"

\* client.go:204: fetchCrumb marks the crumb as tested before anything else.
TestedAfterLockNever(t) == t
TestedAfterLock(t) == TRUE

\* client.go:67: rate.NewLimiter(rate.Limit(RPS), RPS) - a token bucket
\* that holds at most RPS tokens (the burst) and starts full.
Burst == RPS

\* client.go:67: the bucket gains RPS tokens per second, one per slot,
\* and never holds more than the burst.
RefillToDouble(t) == IF t + 2 <= Burst THEN t + 2 ELSE Burst
RefillTo(t) == IF t < Burst THEN t + 1 ELSE t

\* client.go:125: limiter.Wait lets a request through when a token is there.
CanTake(t) == t >= 1
Take(t) == t - 1

NewCall ==
  [ pc        |-> "idle",    \* idle, wait, send, recv, lock, cwait, csend, crecv, done
    method    |-> "GET",
    attempts  |-> 0,         \* attempts of the original request sent
    issuer    |-> 0,         \* crumb-issuer GETs sent by this call
    used      |-> 0,         \* limiter tokens this call consumed
    hdr       |-> NoHeader,  \* crumb header of the last attempt sent
    first403  |-> FALSE,     \* the first attempt was answered 403
    firstTested |-> FALSE,   \* c.crumbTested when the first answer arrived
    got       |-> NoHeader,  \* what this call's fetchCrumb cached
    expired   |-> "none",    \* the limiter wait that hit the deadline:
                             \*   none, orig, issuer, retry
    result    |-> "none" ]   \* none, resp, neterr, unauth, forbidden, ratelimit

InitClient ==
  /\ crumb = ""
  /\ crumbField = ""
  /\ crumbTested = FALSE
  /\ crumbMu = 0
  /\ tokens = Burst                     \* client.go:67: the bucket starts full
  /\ call = [r \in Reqs |-> NewCall]
  /\ issuerCalls = 0
  /\ srvAll403 = TRUE

\* A caller invokes doRequest (client.go:110).
Start(r, m) ==
  /\ call[r].pc = "idle"
  /\ call' = [call EXCEPT ![r].pc = "wait", ![r].method = m]
  /\ UNCHANGED <<crumb, crumbField, crumbTested, crumbMu, tokens,
                 issuerCalls, srvAll403>>

\* client.go:125: limiter.Wait returns nil; one token is taken.
Wait(r) ==
  /\ call[r].pc = "wait"
  /\ CanTake(tokens)
  /\ tokens' = Take(tokens)
  /\ call' = [call EXCEPT ![r].pc = "send", ![r].used = @ + 1]
  /\ UNCHANGED <<crumb, crumbField, crumbTested, crumbMu, issuerCalls, srvAll403>>

\* client.go:125-128: the deadline expires in limiter.Wait; no token is
\* taken and doRequest returns "rate limiter error".
WaitExpired(r) ==
  /\ call[r].pc = "wait"
  /\ call' = [call EXCEPT ![r].pc = "done", ![r].result = "ratelimit",
                          ![r].expired = IF call[r].attempts = 0 THEN "orig" ELSE "retry"]
  /\ UNCHANGED <<crumb, crumbField, crumbTested, crumbMu, tokens,
                 issuerCalls, srvAll403>>

\* client.go:134-156: build the request (the crumb is read under RLock,
\* which waits for a writer) and hand it to the transport.
Send(r) ==
  /\ call[r].pc = "send"
  /\ call[r].method = "GET" \/ crumbMu = 0
  /\ call' = [call EXCEPT ![r].pc = "recv",
                          ![r].attempts = @ + 1,
                          ![r].hdr = CrumbHeader(call[r].method, crumb, crumbField)]
  /\ UNCHANGED <<crumb, crumbField, crumbTested, crumbMu, tokens,
                 issuerCalls, srvAll403>>

\* client.go:156-196: the attempt ends with outcome s.
Recv(r, s) ==
  /\ call[r].pc = "recv"
  /\ LET k == Classify(s, call[r].method, crumbTested)
         c1 == IF call[r].attempts = 1
               THEN [call[r] EXCEPT !.first403 = (s = 403), !.firstTested = crumbTested]
               ELSE call[r]
     IN call' = [call EXCEPT ![r] =
          CASE k = "negotiate" -> [c1 EXCEPT !.pc = "lock"]
            [] k = "neterr"    -> [c1 EXCEPT !.pc = "done", !.result = "neterr"]
            [] k = "unauth"    -> [c1 EXCEPT !.pc = "done", !.result = "unauth"]
            [] k = "forbidden" -> [c1 EXCEPT !.pc = "done", !.result = "forbidden"]
            [] OTHER           -> [c1 EXCEPT !.pc = "done", !.result = "resp"]]
  /\ srvAll403' = (srvAll403 /\ s = 403)
  /\ UNCHANGED <<crumb, crumbField, crumbTested, crumbMu, tokens, issuerCalls>>

\* client.go:201-204: fetchCrumb takes the write lock and sets crumbTested.
Lock(r) ==
  /\ call[r].pc = "lock"
  /\ crumbMu = 0
  /\ crumbMu' = r
  /\ crumbTested' = TestedAfterLock(crumbTested)
  /\ call' = [call EXCEPT ![r].pc = "cwait"]
  /\ UNCHANGED <<crumb, crumbField, tokens, issuerCalls, srvAll403>>

\* client.go:208 -> 125: the issuer GET waits for a token of its own.
IssuerWait(r) ==
  /\ call[r].pc = "cwait"
  /\ CanTake(tokens)
  /\ tokens' = Take(tokens)
  /\ call' = [call EXCEPT ![r].pc = "csend", ![r].used = @ + 1]
  /\ UNCHANGED <<crumb, crumbField, crumbTested, crumbMu, issuerCalls, srvAll403>>

\* client.go:208 -> 125-128, 209-211, 193: the deadline expires while the
\* issuer GET waits; fetchCrumb returns the error, the lock is released and
\* doRequest returns "access forbidden".
IssuerWaitExpired(r) ==
  /\ call[r].pc = "cwait"
  /\ crumbMu' = 0
  /\ call' = [call EXCEPT ![r].pc = "done", ![r].result = "forbidden",
                          ![r].expired = "issuer"]
  /\ UNCHANGED <<crumb, crumbField, crumbTested, tokens, issuerCalls, srvAll403>>

\* client.go:208 -> 134-156: the issuer GET is sent (a GET takes no RLock).
IssuerSend(r) ==
  /\ call[r].pc = "csend"
  /\ call' = [call EXCEPT ![r].pc = "crecv", ![r].issuer = @ + 1]
  /\ issuerCalls' = issuerCalls + 1
  /\ UNCHANGED <<crumb, crumbField, crumbTested, crumbMu, tokens, srvAll403>>

\* client.go:208-236, 187-193: the issuer answers s (with body b when 200);
\* fetchCrumb caches the crumb or fails, releases the lock, and doRequest
\* retries or returns "access forbidden".
IssuerRecv(r, s, b) ==
  /\ call[r].pc = "crecv"
  /\ crumbMu' = 0
  /\ srvAll403' = (srvAll403 /\ s = 403)
  /\ IF FetchCrumbOk(s, b)
     THEN /\ crumb' = b.crumb
          /\ crumbField' = b.field
          /\ call' = [call EXCEPT ![r].pc = RetryEntry,
                                  ![r].got = <<b.field, b.crumb>>]
     ELSE /\ call' = [call EXCEPT ![r].pc = "done", ![r].result = "forbidden"]
          /\ UNCHANGED <<crumb, crumbField>>
  /\ UNCHANGED <<crumbTested, tokens, issuerCalls>>

\* The bucket refills with one token per 1/RPS second, up to the burst
\* (client.go:67).
Refill ==
  /\ tokens < Burst
  /\ tokens' = RefillTo(tokens)
  /\ UNCHANGED <<crumb, crumbField, crumbTested, crumbMu, call, issuerCalls, srvAll403>>

\* every step of call r after it was issued
CallStep(r) ==
  \/ Wait(r)
  \/ WaitExpired(r)
  \/ Send(r)
  \/ \E s \in Statuses : Recv(r, s)
  \/ Lock(r)
  \/ IssuerWait(r)
  \/ IssuerWaitExpired(r)
  \/ IssuerSend(r)
  \/ \E s \in Statuses, b \in IssuerBodies : IssuerRecv(r, s, b)

NextClient ==
  \/ \E r \in Reqs, m \in Methods : Start(r, m)
  \/ \E r \in Reqs : Wait(r)
  \/ \E r \in Reqs : WaitExpired(r)
  \/ \E r \in Reqs : Send(r)
  \/ \E r \in Reqs, s \in Statuses : Recv(r, s)
  \/ \E r \in Reqs : Lock(r)
  \/ \E r \in Reqs : IssuerWait(r)
  \/ \E r \in Reqs : IssuerWaitExpired(r)
  \/ \E r \in Reqs : IssuerSend(r)
  \/ \E r \in Reqs, s \in Statuses, b \in IssuerBodies : IssuerRecv(r, s, b)
  \/ Refill

(***************************************************************************)
(* Part II - the token bucket on a time line                               *)
(*                                                                         *)
(* Time advances in slots of 1/RPS second, the time the limiter needs to   *)
(* gain one token; one second is RPS slots.                                *)
(***************************************************************************)
RECURSIVE SumSeq(_)
SumSeq(q) == IF q = <<>> THEN 0 ELSE Head(q) + SumSeq(Tail(q))

\* tokens consumed within the last second (the current slot included)
WindowSum == SumSeq(window)

InitLimiter ==
  /\ bucket = Burst
  /\ waiting = 0
  /\ issued = 0
  /\ slot = 0
  /\ window = [i \in 1..RPS |-> 0]
  /\ firstSecond = 0
  /\ atOnce = TRUE

\* n requests call doRequest at the same moment and block in limiter.Wait
\* (client.go:125).
Issue(n) ==
  /\ issued + n <= MaxIssued
  /\ issued' = issued + n
  /\ waiting' = waiting + n
  /\ atOnce' = (atOnce /\ slot = 0)
  /\ UNCHANGED <<bucket, slot, window, firstSecond>>

\* limiter.Wait returns for one of the blocked requests (client.go:125).
Pass ==
  /\ waiting > 0
  /\ CanTake(bucket)
  /\ bucket' = Take(bucket)
  /\ waiting' = waiting - 1
  /\ window' = [window EXCEPT ![1] = @ + 1]
  /\ firstSecond' = IF slot < RPS THEN firstSecond + 1 ELSE firstSecond
  /\ UNCHANGED <<issued, slot, atOnce>>

\* 1/RPS second passes: the bucket gains a token (client.go:67).
TickSlot ==
  /\ bucket' = RefillTo(bucket)
  /\ slot' = IF slot < 2 * RPS THEN slot + 1 ELSE slot
  /\ window' = <<0>> \o SubSeq(window, 1, RPS - 1)
  /\ UNCHANGED <<waiting, issued, firstSecond, atOnce>>

NextLimiter ==
  \/ \E n \in 1..MaxIssued : Issue(n)
  \/ Pass
  \/ TickSlot

(***************************************************************************)
(* Part III - application controller and tab models                        *)
(*                                                                         *)
(* The event loop calls Model.Update once per Message, one at a time.      *)
(* A Command runs on its own and ends in one Message; `pending` holds the  *)
(* Commands that have not ended yet.  Data are abstract values: "nil" is   *)
(* a nil pointer or error, "R0"/"Q0" the zero value of a struct; lists of   *)
(* views and jobs are sequences of names, <<>> is the nil slice and every  *)
(* list the server returns is non-empty; the detail of a job is its name.  *)
(* The spinner animation, the window size, scroll offsets and time stamps  *)
(* are left out.                                                           *)
(***************************************************************************)
\* model.go:18-22
TabDashboard == 0
TabViews == 1
TabBuilds == 2

Nil == "nil"
NilList == <<>>

\* ---- Commands and Messages ---------------------------------------------
\* part_007:124-128: the three essential fields of a configuration; a value
\* is the sequence of its characters.
NewConfig(url, username, token) ==
  [BaseURL |-> url, Username |-> username, APIToken |-> token]
\* part_007:32-43
DefaultConfig == NewConfig(<<>>, <<>>, <<>>)
\* IsConfigured that looks at the base URL only
IsConfiguredURLOnly(cfg) == cfg.BaseURL # <<>>

\* part_007:124-128
IsConfigured(cfg) ==
  cfg.BaseURL # <<>> /\ cfg.Username # <<>> /\ cfg.APIToken # <<>>

CmdWith(tab, kind, arg, num, stage, cfg) ==
  [tab |-> tab, kind |-> kind, arg |-> arg, num |-> num, stage |-> stage, cfg |-> cfg]
CmdOn(tab, kind, arg, num, stage) == CmdWith(tab, kind, arg, num, stage, DefaultConfig)
Cmd(tab, kind, arg) == CmdOn(tab, kind, arg, 0, "")

NoCmd == EmptyBag
One(c) == SetToBag({c})

KeyMsg(k) == [type |-> "KeyMsg", key |-> k]

\* setup.go:1133-1139
DashboardDataMsg(ri, n, q, j, e) ==
  [type |-> "DashboardDataMsg", RootInfo |-> ri, Nodes |-> n, Queue |-> q,
   Jobs |-> j, Error |-> e]

\* views.go:809-814
ViewsDataMsg(v, j, jd, e) ==
  [type |-> "ViewsDataMsg", Views |-> v, Jobs |-> j, JobDetail |-> jd, Error |-> e]

\* part_006:1353-1360
BuildsDataMsg(j, jd, bd, pr, lc, e) ==
  [type |-> "BuildsDataMsg", Jobs |-> j, JobDetail |-> jd, BuildDetail |-> bd,
   PipelineRun |-> pr, LogContent |-> lc, Error |-> e]

\* ---- what the client's fetch operations return: <<value, error>> --------
\* part_003:349-361: GetRootInfo returns &info also when getJSON failed.
GetRootInfo == { <<"R1", Nil>>, <<"R0", "E">> }
\* part_003:491-497: GetQueue returns &queue also when getJSON failed.
GetQueue == { <<"Q1", Nil>>, <<"Q0", "E">> }
\* part_003:500-508: GetNodes returns the decoded slice, nil on failure.
GetNodes == { <<"N1", Nil>>, <<Nil, "E">> }
\* part_003:387-395: GetAllJobs, as seen by the dashboard.
GetAllJobsDash == { <<"J1", Nil>>, <<Nil, "E">> }
\* part_003:364-371: GetViews.
GetViews == { <<(<<"V1", "W2">>), Nil>>, <<(<<"V1">>), Nil>>, <<NilList, "E">> }
\* part_003:374-395: GetViewJobs / GetAllJobs return the jobs in the
\* server's order, nil on failure.
JobLists == { <<"B", "A">>, <<"A">> }
GetJobs == { <<l, Nil>> : l \in JobLists } \cup { <<NilList, "E">> }
\* part_003:398-430: GetJob returns nil when the job request failed.
GetJob(name) == { <<name, Nil>>, <<Nil, "E">> }
\* the builds a job detail lists, in the server's order: job "A" has two
\* builds, job "B" one
BuildsOf(jobDetail) == IF jobDetail = "A" THEN <<1, 2>> ELSE <<1>>
\* part_003:433-453: GetBuild; a build is its job and number.
NilBuild == [job |-> "", number |-> 0]
GetBuild(name, n) == { <<[job |-> name, number |-> n], Nil>>, <<NilBuild, "E">> }
\* part_003:536-545: GetPipelineRun gives the stages of a pipeline build,
\* nil for another kind of job or on failure; its error is ignored.
GetPipelineRun == { <<"s1">>, NilList }
\* part_003:471-488, client.go:264-286: the log text, "" on failure.
GetBuildLog == { <<"log", Nil>>, <<"", "E">> }
GetStageLog == { <<"stagelog", Nil>>, <<"", "E">> }

\* part_002:746-758: most recent last build first; job "A" was built after
\* job "B".
SortJobsByLastBuild(l) ==
  IF l = <<"B", "A">> THEN <<"A", "B">> ELSE l

\* The Messages a Command can end in (model.go:291-311, 375-382;
\* setup.go:1096-1130; views.go:779-806; part_006:1294-1311).
Results(c) ==
  CASE c.kind = "initializeClient" ->
         { [type |-> "ClientReadyMsg"], [type |-> "ClientErrorMsg", Error |-> "E"] }
    [] c.kind = "autoRefreshTick" ->
         { [type |-> "AutoRefreshTickMsg"] }
    [] c.kind = "testConnection" ->
         { [type |-> "testConnectionResult", err |-> e] : e \in {Nil, "E"} }
    [] c.kind = "setupComplete" ->
         \* with the outcome of config.Save (part_007:90-121) that
         \* Model.Update will find
         { [type |-> "SetupCompleteMsg", Config |-> c.cfg, saveErr |-> e] : e \in {Nil, "E"} }
    [] c.tab = "dashboard" /\ c.kind = "fetchRootInfo" ->
         { DashboardDataMsg(r[1], Nil, Nil, Nil, r[2]) : r \in GetRootInfo }
    [] c.tab = "dashboard" /\ c.kind = "fetchNodes" ->
         { DashboardDataMsg(Nil, r[1], Nil, Nil, r[2]) : r \in GetNodes }
    [] c.tab = "dashboard" /\ c.kind = "fetchQueue" ->
         { DashboardDataMsg(Nil, Nil, r[1], Nil, r[2]) : r \in GetQueue }
    [] c.tab = "dashboard" /\ c.kind = "fetchJobs" ->
         { DashboardDataMsg(Nil, Nil, Nil, r[1], r[2]) : r \in GetAllJobsDash }
    [] c.tab = "views" /\ c.kind = "fetchViews" ->
         { ViewsDataMsg(r[1], NilList, Nil, r[2]) : r \in GetViews }
    [] c.tab = "views" /\ c.kind = "fetchViewJobs" ->
         { ViewsDataMsg(NilList, r[1], Nil, r[2]) : r \in GetJobs }
    [] c.tab = "views" /\ c.kind = "fetchJobDetail" ->
         { ViewsDataMsg(NilList, NilList, r[1], r[2]) : r \in GetJob(c.arg) }
    [] c.tab = "builds" /\ c.kind = "fetchJobs" ->
         { BuildsDataMsg(r[1], Nil, NilBuild, NilList, "", r[2]) : r \in GetJobs }
    [] c.tab = "builds" /\ c.kind = "fetchJobDetail" ->
         { BuildsDataMsg(NilList, r[1], NilBuild, NilList, "", r[2]) : r \in GetJob(c.arg) }
    [] c.tab = "builds" /\ c.kind = "fetchBuildDetail" ->
         { BuildsDataMsg(NilList, Nil, NilBuild, NilList, "", "E") }
         \cup { BuildsDataMsg(NilList, Nil, [job |-> c.arg, number |-> c.num], pr, "", Nil) :
                  pr \in GetPipelineRun }
    [] c.tab = "builds" /\ c.kind = "fetchBuildLog" ->
         { BuildsDataMsg(NilList, Nil, NilBuild, NilList, r[1], r[2]) : r \in GetBuildLog }
    [] c.tab = "builds" /\ c.kind = "fetchStageLog" ->
         { BuildsDataMsg(NilList, Nil, NilBuild, NilList, r[1], r[2]) : r \in GetStageLog }
    [] OTHER -> {}

\* ---- DashboardModel (setup.go:299-403) ----------------------------------
\* setup.go:348-361
NewDashboardModel ==
  [ rootInfo |-> Nil, nodes |-> Nil, queue |-> Nil,
    runningBuilds |-> Nil, recentBuilds |-> Nil,
    selectedPanel |-> 0, loading |-> TRUE, lastError |-> Nil ]

\* setup.go:1035-1066: the running builds are derived from the nodes.
ExtractRunningBuilds(nodes) == IF nodes = "N1" THEN "RB1" ELSE Nil

\* setup.go:1068-1094: the recent builds are derived from the jobs.
ProcessJobs(jobs) == IF jobs = "J1" THEN "RC1" ELSE Nil

\* setup.go:370-380
DashLoadData(d) ==
  [ m    |-> [d EXCEPT !.loading = TRUE],
    cmds |-> SetToBag({ Cmd("dashboard", "fetchRootInfo", ""),
                        Cmd("dashboard", "fetchNodes", ""),
                        Cmd("dashboard", "fetchQueue", ""),
                        Cmd("dashboard", "fetchJobs", "") }) ]

\* DashMerge that takes every field from the Message
DashMergeOverwrite(d, msg) ==
  [d EXCEPT !.loading = FALSE, !.rootInfo = msg.RootInfo, !.nodes = msg.Nodes,
            !.runningBuilds = ExtractRunningBuilds(msg.Nodes),
            !.queue = msg.Queue, !.recentBuilds = ProcessJobs(msg.Jobs)]

\* setup.go:383-403: merge of a DashboardDataMsg.
DashMerge(d, msg) ==
  LET d1 == [d EXCEPT !.loading = FALSE]
      d2 == IF msg.RootInfo # Nil THEN [d1 EXCEPT !.rootInfo = msg.RootInfo] ELSE d1
      d3 == IF msg.Nodes # Nil
            THEN [d2 EXCEPT !.nodes = msg.Nodes,
                            !.runningBuilds = ExtractRunningBuilds(msg.Nodes)]
            ELSE d2
      d4 == IF msg.Queue # Nil THEN [d3 EXCEPT !.queue = msg.Queue] ELSE d3
      d5 == IF msg.Jobs # Nil THEN [d4 EXCEPT !.recentBuilds = ProcessJobs(msg.Jobs)] ELSE d4
  IN IF msg.Error # Nil THEN [d5 EXCEPT !.lastError = msg.Error] ELSE d5

\* setup.go:382-431 (keys pressed in this model: r, tab, shift+tab).
DashUpdate(d, msg) ==
  CASE msg.type = "DashboardDataMsg" -> [m |-> DashMerge(d, msg), cmds |-> NoCmd]
    [] msg.type = "KeyMsg" /\ msg.key = "r" -> DashLoadData(d)
    [] msg.type = "KeyMsg" /\ msg.key = "tab" ->
         [m |-> [d EXCEPT !.selectedPanel = (@ + 1) % 4], cmds |-> NoCmd]
    [] msg.type = "KeyMsg" /\ msg.key = "shift+tab" ->
         [m |-> [d EXCEPT !.selectedPanel = (@ + 3) % 4], cmds |-> NoCmd]
    [] OTHER -> [m |-> d, cmds |-> NoCmd]

\* ---- ViewsModel (views.go:30-259) ---------------------------------------
\* views.go:62-80
NewViewsModel ==
  [ mode |-> "List", views |-> NilList, jobs |-> NilList, jobDetail |-> Nil,
    selectedView |-> 0, selectedJob |-> 0, loading |-> TRUE, lastError |-> Nil,
    searching |-> FALSE,
    filter |-> <<>> ]     \* also the value of searchInput: the two are set together

\* Go slices count from 0.
At(l, i) == l[i + 1]

\* the characters of a view's or job's name
NameRunes(name) ==
  CASE name = "V1" -> <<"V", "1">>
    [] name = "W2" -> <<"W", "2">>
    [] name = "A" -> <<"A">>
    [] name = "B" -> <<"B">>
    [] OTHER -> <<>>

\* strings.ToLower on the characters used here
Lower(r) ==
  CASE r = "V" -> "v" [] r = "W" -> "w" [] r = "A" -> "a" [] r = "B" -> "b" [] OTHER -> r
ToLower(t) == [i \in 1..Len(t) |-> Lower(t[i])]

\* strings.Contains
Contains(t, sub) ==
  \E i \in 1..(Len(t) - Len(sub) + 1) : SubSeq(t, i, i + Len(sub) - 1) = sub

\* views.go:663-691, part_006:1174-1187: the names that contain the filter
FilterNames(names, filter) ==
  LET Hit(n) == Contains(ToLower(NameRunes(n)), ToLower(filter))
  IN IF filter = <<>> THEN names ELSE SelectSeq(names, Hit)

\* views.go:663-691
getFilteredViews(v) == FilterNames(v.views, v.filter)
getFilteredJobs(v) == FilterNames(v.jobs, v.filter)

\* the characters that a text input takes
Typed == {"q", "r", "w", "v", " ", "?", "1", "2", "3", "j", "k", "l"}

\* textinput.Update: the value of a text input after key k
TypeInto(t, k) ==
  CASE k \in Typed -> Append(t, k)
    [] k = "backspace" /\ t # <<>> -> SubSeq(t, 1, Len(t) - 1)
    [] OTHER -> t

\* views.go:90-96
ViewsLoadData(v) ==
  [ m |-> [v EXCEPT !.loading = TRUE], cmds |-> One(Cmd("views", "fetchViews", "")) ]

\* views.go:788-796
fetchViewJobs(v, viewName) ==
  [ m |-> [v EXCEPT !.loading = TRUE], cmds |-> One(Cmd("views", "fetchViewJobs", viewName)) ]

\* views.go:798-806
fetchJobDetail(v, jobName) ==
  [ m |-> [v EXCEPT !.loading = TRUE], cmds |-> One(Cmd("views", "fetchJobDetail", jobName)) ]

\* views.go:103-120: merge of a ViewsDataMsg; whichever arrives last wins.
ViewsMerge(v, msg) ==
  LET v1 == [v EXCEPT !.loading = FALSE]
      v2 == IF msg.Views # NilList THEN [v1 EXCEPT !.views = msg.Views] ELSE v1
      v3 == IF msg.Jobs # NilList
            THEN [v2 EXCEPT !.jobs = SortJobsByLastBuild(msg.Jobs)] ELSE v2
      v4 == IF msg.JobDetail # Nil THEN [v3 EXCEPT !.jobDetail = msg.JobDetail] ELSE v3
  IN IF msg.Error # Nil THEN [v4 EXCEPT !.lastError = msg.Error] ELSE v4

\* views.go:693-737
ViewsNavigateDown(v) ==
  CASE v.mode = "List" /\ v.selectedView < Len(getFilteredViews(v)) - 1 ->
         [v EXCEPT !.selectedView = @ + 1]
    [] v.mode = "Jobs" /\ v.selectedJob < Len(getFilteredJobs(v)) - 1 ->
         [v EXCEPT !.selectedJob = @ + 1]
    [] OTHER -> v

ViewsNavigateUp(v) ==
  CASE v.mode = "List" /\ v.selectedView > 0 -> [v EXCEPT !.selectedView = @ - 1]
    [] v.mode = "Jobs" /\ v.selectedJob > 0 -> [v EXCEPT !.selectedJob = @ - 1]
    [] OTHER -> v

\* views.go:170-175, 209-214: the two places that index a list with a
\* selection that was not compared with the list's length.
ViewsPanics(v, msg) ==
  /\ msg.type = "KeyMsg" /\ ~v.searching
  /\ \/ /\ msg.key = "enter" /\ v.mode = "List"
        /\ Len(getFilteredViews(v)) > 0
        /\ v.selectedView >= Len(getFilteredViews(v))
     \/ /\ msg.key = "r" /\ v.mode = "Jobs"
        /\ v.selectedView >= Len(v.views)

\* views.go:157-168
ViewsEsc(v) ==
  CASE v.mode = "JobDetail" -> [v EXCEPT !.mode = "Jobs", !.jobDetail = Nil]
    [] v.mode = "Jobs" -> [v EXCEPT !.mode = "List", !.jobs = NilList, !.selectedJob = 0]
    [] OTHER -> v

\* views.go:170-183
ViewsEnter(v) ==
  CASE v.mode = "List" /\ Len(getFilteredViews(v)) > 0 ->
         fetchViewJobs([v EXCEPT !.mode = "Jobs"], At(getFilteredViews(v), v.selectedView))
    [] v.mode = "Jobs" /\ Len(getFilteredJobs(v)) > 0
                       /\ v.selectedJob < Len(getFilteredJobs(v)) ->
         fetchJobDetail([v EXCEPT !.mode = "JobDetail"], At(getFilteredJobs(v), v.selectedJob))
    [] OTHER -> [m |-> v, cmds |-> NoCmd]

\* views.go:209-214
ViewsRefresh(v) ==
  CASE v.mode = "List" -> ViewsLoadData(v)
    [] v.mode = "Jobs" -> fetchViewJobs(v, At(v.views, v.selectedView))
    [] OTHER -> [m |-> v, cmds |-> NoCmd]

\* views.go:129-149: a key pressed while the search input is active
ViewsSearchKey(v, k) ==
  CASE k = "esc" -> [v EXCEPT !.searching = FALSE, !.filter = <<>>]
    [] k = "enter" -> [v EXCEPT !.searching = FALSE]
    [] OTHER -> [v EXCEPT !.filter = TypeInto(@, k)]

\* views.go:99-259 (keys pressed in this model: /, backspace, esc, enter,
\* r, j, k).
ViewsUpdate(v, msg) ==
  CASE msg.type = "ViewsDataMsg" -> [m |-> ViewsMerge(v, msg), cmds |-> NoCmd]
    [] msg.type = "KeyMsg" /\ v.searching ->
         [m |-> ViewsSearchKey(v, msg.key), cmds |-> NoCmd]
    [] msg.type = "KeyMsg" /\ msg.key = "/" ->
         [m |-> [v EXCEPT !.searching = TRUE], cmds |-> NoCmd]
    [] msg.type = "KeyMsg" /\ msg.key = "backspace" ->
         [m |-> [v EXCEPT !.filter = <<>>], cmds |-> NoCmd]
    [] msg.type = "KeyMsg" /\ msg.key = "esc" -> [m |-> ViewsEsc(v), cmds |-> NoCmd]
    [] msg.type = "KeyMsg" /\ msg.key = "enter" -> ViewsEnter(v)
    [] msg.type = "KeyMsg" /\ msg.key = "r" -> ViewsRefresh(v)
    [] msg.type = "KeyMsg" /\ msg.key = "j" -> [m |-> ViewsNavigateDown(v), cmds |-> NoCmd]
    [] msg.type = "KeyMsg" /\ msg.key = "k" -> [m |-> ViewsNavigateUp(v), cmds |-> NoCmd]
    [] OTHER -> [m |-> v, cmds |-> NoCmd]

\* ---- BuildsModel (part_006:34-394) --------------------------------------
\* part_006:83-117
NewBuildsModel ==
  [ mode |-> "JobList", jobs |-> NilList, selectedJob |-> 0,
    jobDetail |-> Nil, builds |-> NilList, selectedBuild |-> 0, selectedStage |-> 0,
    buildDetail |-> NilBuild, pipelineRun |-> NilList, logContent |-> "",
    loading |-> TRUE, lastError |-> Nil,
    searching |-> FALSE, searchInput |-> <<>>, filter |-> <<>> ]

\* part_002:761-765: highest build number first (at most two builds here).
SortBuildsByNumber(l) ==
  IF Len(l) = 2 /\ l[1] < l[2] THEN <<l[2], l[1]>> ELSE l

\* part_006:128-134
BuildsLoadData(b) ==
  [ m |-> [b EXCEPT !.loading = TRUE], cmds |-> One(Cmd("builds", "fetchJobs", "")) ]

\* part_006:1303-1311
BuildsFetchJobDetail(b, jobName) ==
  [ m |-> [b EXCEPT !.loading = TRUE],
    cmds |-> One(Cmd("builds", "fetchJobDetail", jobName)) ]

\* part_006:1313-1330
fetchBuildDetail(b, jobName, buildNum) ==
  [ m |-> [b EXCEPT !.loading = TRUE],
    cmds |-> One(CmdOn("builds", "fetchBuildDetail", jobName, buildNum, "")) ]

\* part_006:1332-1340
fetchBuildLog(b, jobName, buildNum) ==
  [ m |-> [b EXCEPT !.loading = TRUE],
    cmds |-> One(CmdOn("builds", "fetchBuildLog", jobName, buildNum, "")) ]

\* part_006:1342-1350
fetchStageLog(b, jobName, buildNum, stageID) ==
  [ m |-> [b EXCEPT !.loading = TRUE],
    cmds |-> One(CmdOn("builds", "fetchStageLog", jobName, buildNum, stageID)) ]

\* part_006:141-173: merge of a BuildsDataMsg.
BuildsMerge(b, msg) ==
  LET b1 == [b EXCEPT !.loading = FALSE]
      b2 == IF msg.Jobs # NilList
            THEN [b1 EXCEPT !.jobs = SortJobsByLastBuild(msg.Jobs)] ELSE b1
      b3 == IF msg.JobDetail # Nil
            THEN [b2 EXCEPT !.jobDetail = msg.JobDetail,
                            !.builds = SortBuildsByNumber(BuildsOf(msg.JobDetail))]
            ELSE b2
      b4 == IF msg.BuildDetail # NilBuild THEN [b3 EXCEPT !.buildDetail = msg.BuildDetail] ELSE b3
      b5 == IF msg.PipelineRun # NilList THEN [b4 EXCEPT !.pipelineRun = msg.PipelineRun] ELSE b4
      b6 == IF msg.LogContent # "" THEN [b5 EXCEPT !.logContent = msg.LogContent] ELSE b5
  IN IF msg.Error # Nil THEN [b6 EXCEPT !.lastError = msg.Error] ELSE b6

\* part_006:1174-1187
BuildsFilteredJobs(b) == FilterNames(b.jobs, b.filter)

\* part_006:237-254
BuildsEsc(b) ==
  CASE b.mode \in {"LogView", "StageLogView"} ->
         [b EXCEPT !.mode = "BuildDetail", !.logContent = ""]
    [] b.mode = "BuildDetail" ->
         [b EXCEPT !.mode = "BuildList", !.buildDetail = NilBuild, !.pipelineRun = NilList]
    [] b.mode = "BuildList" ->
         [b EXCEPT !.mode = "JobList", !.jobDetail = Nil, !.builds = NilList,
                   !.selectedBuild = 0]
    [] OTHER -> b

\* part_006:256-275
BuildsEnter(b) ==
  CASE b.mode = "JobList" /\ Len(BuildsFilteredJobs(b)) > 0
                          /\ b.selectedJob < Len(BuildsFilteredJobs(b)) ->
         BuildsFetchJobDetail([b EXCEPT !.mode = "BuildList"],
                              At(BuildsFilteredJobs(b), b.selectedJob))
    [] b.mode = "BuildList" /\ Len(b.builds) > 0 /\ b.selectedBuild < Len(b.builds) ->
         fetchBuildDetail([b EXCEPT !.mode = "BuildDetail"], b.jobDetail,
                          At(b.builds, b.selectedBuild))
    [] b.mode = "BuildDetail" /\ b.pipelineRun # NilList ->
         fetchStageLog([b EXCEPT !.mode = "StageLogView"], b.jobDetail,
                       b.buildDetail.number, At(b.pipelineRun, b.selectedStage))
    [] OTHER -> [m |-> b, cmds |-> NoCmd]

\* part_006:277-289: the number of the build whose log key l asks for.
LogBuildNum(b) ==
  CASE b.mode = "BuildList" /\ Len(b.builds) > 0 -> At(b.builds, b.selectedBuild)
    [] b.mode = "BuildDetail" /\ b.buildDetail # NilBuild -> b.buildDetail.number
    [] OTHER -> 0

\* part_006:277-289
BuildsLog(b) ==
  IF b.mode \in {"BuildList", "BuildDetail"} /\ b.jobDetail # Nil /\ LogBuildNum(b) > 0
  THEN fetchBuildLog([b EXCEPT !.mode = "LogView"], b.jobDetail, LogBuildNum(b))
  ELSE [m |-> b, cmds |-> NoCmd]

\* part_006:299-316
BuildsRefresh(b) ==
  CASE b.mode = "JobList" -> BuildsLoadData(b)
    [] b.mode = "BuildList" /\ b.jobDetail # Nil -> BuildsFetchJobDetail(b, b.jobDetail)
    [] b.mode = "LogView" /\ b.jobDetail # Nil /\ b.buildDetail # NilBuild ->
         fetchBuildLog(b, b.jobDetail, b.buildDetail.number)
    [] b.mode = "StageLogView" /\ b.jobDetail # Nil /\ b.buildDetail # NilBuild ->
         fetchStageLog(b, b.jobDetail, b.buildDetail.number,
                       At(b.pipelineRun, b.selectedStage))
    [] OTHER -> [m |-> b, cmds |-> NoCmd]

\* part_006:1189-1215
BuildsNavigateDown(b) ==
  CASE b.mode = "JobList" /\ b.selectedJob < Len(BuildsFilteredJobs(b)) - 1 ->
         [b EXCEPT !.selectedJob = @ + 1]
    [] b.mode = "BuildList" /\ b.selectedBuild < Len(b.builds) - 1 ->
         [b EXCEPT !.selectedBuild = @ + 1]
    [] b.mode = "BuildDetail" /\ b.pipelineRun # NilList
                              /\ b.selectedStage < Len(b.pipelineRun) - 1 ->
         [b EXCEPT !.selectedStage = @ + 1]
    [] OTHER -> b

\* part_006:1217-1240
BuildsNavigateUp(b) ==
  CASE b.mode = "JobList" /\ b.selectedJob > 0 -> [b EXCEPT !.selectedJob = @ - 1]
    [] b.mode = "BuildList" /\ b.selectedBuild > 0 -> [b EXCEPT !.selectedBuild = @ - 1]
    [] b.mode = "BuildDetail" /\ b.selectedStage > 0 -> [b EXCEPT !.selectedStage = @ - 1]
    [] OTHER -> b

\* part_006:256-316: the places that index a list with a selection that
\* was not compared with the list's length.
BuildsPanics(b, msg) ==
  /\ msg.type = "KeyMsg" /\ ~b.searching
  /\ \/ /\ msg.key = "enter" /\ b.mode = "BuildDetail" /\ b.pipelineRun # NilList
        /\ b.selectedStage >= Len(b.pipelineRun)
     \/ /\ msg.key = "l" /\ b.mode = "BuildList" /\ b.jobDetail # Nil
        /\ Len(b.builds) > 0 /\ b.selectedBuild >= Len(b.builds)
     \/ /\ msg.key = "r" /\ b.mode = "StageLogView"
        /\ b.jobDetail # Nil /\ b.buildDetail # NilBuild
        /\ b.selectedStage >= Len(b.pipelineRun)

\* part_006:182-201: a key pressed while the search input is active
BuildsSearchKey(b, k) ==
  CASE k = "esc" -> [b EXCEPT !.searching = FALSE, !.filter = <<>>, !.searchInput = <<>>]
    [] k = "enter" -> [b EXCEPT !.searching = FALSE, !.filter = b.searchInput]
    [] OTHER -> [b EXCEPT !.searchInput = TypeInto(@, k)]

\* part_006:137-394 (keys pressed in this model: /, esc, enter, l, r, j, k;
\* the search inside a log is left out).
BuildsUpdate(b, msg) ==
  CASE msg.type = "BuildsDataMsg" -> [m |-> BuildsMerge(b, msg), cmds |-> NoCmd]
    [] msg.type = "KeyMsg" /\ b.searching ->
         [m |-> BuildsSearchKey(b, msg.key), cmds |-> NoCmd]
    [] msg.type = "KeyMsg" /\ msg.key = "/" /\ b.mode \notin {"LogView", "StageLogView"} ->
         [m |-> [b EXCEPT !.searching = TRUE], cmds |-> NoCmd]
    [] msg.type = "KeyMsg" /\ msg.key = "esc" -> [m |-> BuildsEsc(b), cmds |-> NoCmd]
    [] msg.type = "KeyMsg" /\ msg.key = "enter" -> BuildsEnter(b)
    [] msg.type = "KeyMsg" /\ msg.key = "l" -> BuildsLog(b)
    [] msg.type = "KeyMsg" /\ msg.key = "r" -> BuildsRefresh(b)
    [] msg.type = "KeyMsg" /\ msg.key = "j" -> [m |-> BuildsNavigateDown(b), cmds |-> NoCmd]
    [] msg.type = "KeyMsg" /\ msg.key = "k" -> [m |-> BuildsNavigateUp(b), cmds |-> NoCmd]
    [] OTHER -> [m |-> b, cmds |-> NoCmd]

\* ---- SetupModel (setup.go:26-265) ----------------------------------------
\* setup.go:17-22
FieldURL == 0
FieldUsername == 1
FieldToken == 2
FieldSubmit == 3

\* setup.go:41-66
NewSetupModel ==
  [ urlInput |-> <<>>, usernameInput |-> <<>>, tokenInput |-> <<>>,
    focusedField |-> FieldURL, err |-> Nil, testing |-> FALSE, testResult |-> "" ]

\* strings.TrimSpace: leading and trailing blanks removed
RECURSIVE TrimLeft(_)
TrimLeft(v) == IF v # <<>> /\ Head(v) = " " THEN TrimLeft(Tail(v)) ELSE v
RECURSIVE TrimRight(_)
TrimRight(v) ==
  IF v # <<>> /\ v[Len(v)] = " " THEN TrimRight(SubSeq(v, 1, Len(v) - 1)) ELSE v
TrimSpace(v) == TrimRight(TrimLeft(v))

\* keys that are one character: a text input inserts them
Runes == {"q", "r", " ", "?", "1", "2", "3", "j", "k", "l"}

\* setup.go:119-128: the focused input takes the key.
\* the text input without its last character (key backspace)
DropLast(t) == IF t = <<>> THEN t ELSE SubSeq(t, 1, Len(t) - 1)

SetupType(su, k) ==
  CASE k = "backspace" /\ su.focusedField = FieldURL -> [su EXCEPT !.urlInput = DropLast(@)]
    [] k = "backspace" /\ su.focusedField = FieldUsername ->
         [su EXCEPT !.usernameInput = DropLast(@)]
    [] k = "backspace" /\ su.focusedField = FieldToken -> [su EXCEPT !.tokenInput = DropLast(@)]
    [] k \notin Runes -> su
    [] su.focusedField = FieldURL -> [su EXCEPT !.urlInput = Append(@, k)]
    [] su.focusedField = FieldUsername -> [su EXCEPT !.usernameInput = Append(@, k)]
    [] su.focusedField = FieldToken -> [su EXCEPT !.tokenInput = Append(@, k)]
    [] OTHER -> su

\* setup.go:235-265
testAndSave(su) ==
  LET url == TrimSpace(su.urlInput)
      username == TrimSpace(su.usernameInput)
      token == TrimSpace(su.tokenInput)
  IN IF url = <<>> \/ username = <<>> \/ token = <<>>
     THEN [ m |-> [su EXCEPT !.err = "E", !.testResult = "All fields are required"],
            cmds |-> NoCmd, quit |-> FALSE ]
     ELSE [ m |-> [su EXCEPT !.testing = TRUE, !.err = Nil, !.testResult = ""],
            cmds |-> SetToBag({CmdWith("setup", "testConnection", "", 0, "",
                                       NewConfig(url, username, token))}),
            quit |-> FALSE ]

\* setup.go:99-116
SetupTestResult(su, msg) ==
  IF msg.err # Nil
  THEN [ m |-> [su EXCEPT !.testing = FALSE, !.err = msg.err,
                          !.testResult = "Connection failed"],
         cmds |-> NoCmd, quit |-> FALSE ]
  ELSE [ m |-> [su EXCEPT !.testing = FALSE, !.testResult = "Connection successful!"],
         cmds |-> SetToBag({CmdWith("setup", "setupComplete", "", 0, "",
                                    NewConfig(su.urlInput, su.usernameInput, su.tokenInput))}),
         quit |-> FALSE ]

\* setup.go:74-131
SetupUpdate(su, msg) ==
  LET same(x) == [m |-> x, cmds |-> NoCmd, quit |-> FALSE] IN
  CASE msg.type = "KeyMsg" /\ msg.key = "ctrl+c" -> [same(su) EXCEPT !.quit = TRUE]
    [] msg.type = "KeyMsg" /\ msg.key \in {"tab", "down"} ->
         same([su EXCEPT !.focusedField = (@ + 1) % 4])
    [] msg.type = "KeyMsg" /\ msg.key \in {"shift+tab", "up"} ->
         same([su EXCEPT !.focusedField = (@ + 3) % 4])
    [] msg.type = "KeyMsg" /\ msg.key = "enter" ->
         IF su.focusedField = FieldSubmit THEN testAndSave(su)
         ELSE same([su EXCEPT !.focusedField = (@ + 1) % 4])
    [] msg.type = "KeyMsg" -> same(SetupType(su, msg.key))
    [] msg.type = "testConnectionResult" -> SetupTestResult(su, msg)
    [] OTHER -> same(su)

\* ---- Model (model.go:35-383) ---------------------------------------------
\* model.go:73-103
NewModelFor(cfg) ==
  [ state |-> IF IsConfigured(cfg) THEN "Loading" ELSE "Setup",
    config |-> cfg,
    activeTab |-> TabDashboard, showHelp |-> FALSE,
    autoRefreshEnabled |-> TRUE, lastError |-> Nil,
    hasSetup |-> ~IsConfigured(cfg),   \* the setup model exists (is not nil)
    setup |-> NewSetupModel,
    hasTabs |-> FALSE,         \* the three tab models exist (are not nil)
    quit |-> FALSE,            \* tea.Quit was returned: the program ended
    panicked |-> FALSE,        \* an index went out of range
    dash |-> NewDashboardModel, views |-> NewViewsModel, builds |-> NewBuildsModel ]

\* started with a complete configuration
NewModel == NewModelFor(NewConfig(<<"q">>, <<"q">>, <<"q">>))

Stay(m) == [m |-> m, cmds |-> NoCmd]

\* initializeClient that starts nothing
initializeClientNone == NoCmd

\* model.go:291-311
initializeClient == One(Cmd("app", "initializeClient", ""))

\* scheduleAutoRefresh that never arms a timer
scheduleAutoRefreshNever(m) == NoCmd

\* model.go:375-382 (the refresh interval is positive)
scheduleAutoRefresh(m) ==
  IF m.autoRefreshEnabled THEN One(Cmd("app", "autoRefreshTick", "")) ELSE NoCmd

\* model.go:314-318
initTabModels(m) ==
  [m EXCEPT !.hasTabs = TRUE, !.dash = NewDashboardModel,
            !.views = NewViewsModel, !.builds = NewBuildsModel]

\* model.go:321-337
loadTabData(m) ==
  CASE m.hasTabs /\ m.activeTab = TabDashboard ->
         LET u == DashLoadData(m.dash) IN [m |-> [m EXCEPT !.dash = u.m], cmds |-> u.cmds]
    [] m.hasTabs /\ m.activeTab = TabViews ->
         LET u == ViewsLoadData(m.views) IN [m |-> [m EXCEPT !.views = u.m], cmds |-> u.cmds]
    [] m.hasTabs /\ m.activeTab = TabBuilds ->
         LET u == BuildsLoadData(m.builds) IN [m |-> [m EXCEPT !.builds = u.m], cmds |-> u.cmds]
    [] OTHER -> Stay(m)

\* model.go:340-356: only the active tab's model sees the Message.
updateActiveTab(m, msg) ==
  CASE m.hasTabs /\ m.activeTab = TabDashboard ->
         LET u == DashUpdate(m.dash, msg) IN [m |-> [m EXCEPT !.dash = u.m], cmds |-> u.cmds]
    [] m.hasTabs /\ m.activeTab = TabViews ->
         IF ViewsPanics(m.views, msg)
         THEN Stay([m EXCEPT !.panicked = TRUE, !.quit = TRUE])
         ELSE LET u == ViewsUpdate(m.views, msg)
              IN [m |-> [m EXCEPT !.views = u.m], cmds |-> u.cmds]
    [] m.hasTabs /\ m.activeTab = TabBuilds ->
         IF BuildsPanics(m.builds, msg)
         THEN Stay([m EXCEPT !.panicked = TRUE, !.quit = TRUE])
         ELSE LET u == BuildsUpdate(m.builds, msg)
              IN [m |-> [m EXCEPT !.builds = u.m], cmds |-> u.cmds]
    [] OTHER -> Stay(m)

\* model.go:254-267
Delegate(m, msg) ==
  CASE m.state = "Setup" /\ m.hasSetup ->
         LET u == SetupUpdate(m.setup, msg)
         IN [m |-> [m EXCEPT !.setup = u.m, !.quit = u.quit], cmds |-> u.cmds]
    [] m.state = "Ready" -> updateActiveTab(m, msg)
    [] OTHER -> Stay(m)

\* model.go:162-186
SwitchTab(m, t) == loadTabData([m EXCEPT !.activeTab = t])

\* model.go:129-190: global keys; a key whose condition fails falls through
\* to the delegation.
\* QuitKey without the test of the state
QuitKeyAnyState(m, k) == k \in {"ctrl+c", "q"}

\* model.go:132-135: the keys that quit on the controller's level
QuitKey(m, k) == k \in {"ctrl+c", "q"} /\ m.state # "Setup"

UpdateKey(m, k) ==
  CASE QuitKey(m, k) -> Stay([m EXCEPT !.quit = TRUE])
    [] k = "r" /\ m.state = "Error" ->
         [m |-> [m EXCEPT !.state = "Loading", !.lastError = Nil], cmds |-> initializeClient]
    [] k = "?" /\ m.state = "Ready" -> Stay([m EXCEPT !.showHelp = ~@])
    [] k = "ctrl+r" /\ m.state = "Ready" ->
         LET m1 == [m EXCEPT !.autoRefreshEnabled = ~@]
         IN [m |-> m1, cmds |-> scheduleAutoRefresh(m1)]
    [] k = "tab" /\ m.state = "Ready" /\ ~m.showHelp -> SwitchTab(m, (m.activeTab + 1) % 3)
    [] k = "shift+tab" /\ m.state = "Ready" /\ ~m.showHelp -> SwitchTab(m, (m.activeTab + 2) % 3)
    [] k = "1" /\ m.state = "Ready" -> SwitchTab(m, TabDashboard)
    [] k = "2" /\ m.state = "Ready" -> SwitchTab(m, TabViews)
    [] k = "3" /\ m.state = "Ready" -> SwitchTab(m, TabBuilds)
    [] k = "esc" /\ m.showHelp -> Stay([m EXCEPT !.showHelp = FALSE])
    [] OTHER -> Delegate(m, KeyMsg(k))

\* model.go:125-268
Update(m, msg) ==
  CASE msg.type = "KeyMsg" -> UpdateKey(m, msg.key)
    [] msg.type = "SetupCompleteMsg" ->
         IF msg.saveErr # Nil
         THEN Stay([m EXCEPT !.config = msg.Config, !.lastError = msg.saveErr,
                             !.state = "Error"])
         ELSE [ m |-> [m EXCEPT !.config = msg.Config, !.state = "Loading",
                                !.hasSetup = FALSE, !.setup = NewSetupModel],
                cmds |-> initializeClient ]
    [] msg.type = "ClientReadyMsg" ->
         LET u == loadTabData(initTabModels([m EXCEPT !.state = "Ready"]))
         IN [m |-> u.m, cmds |-> u.cmds (+) scheduleAutoRefresh(u.m)]
    [] msg.type = "ClientErrorMsg" ->
         Stay([m EXCEPT !.lastError = msg.Error, !.state = "Error"])
    [] msg.type = "AutoRefreshTickMsg" ->
         IF m.state = "Ready" /\ m.autoRefreshEnabled
         THEN LET u == loadTabData(m)
              IN [m |-> u.m, cmds |-> u.cmds (+) scheduleAutoRefresh(u.m)]
         ELSE Stay(m)
    [] OTHER -> Delegate(m, msg)

\* ---- the event loop ------------------------------------------------------
\* model.go:106-122: Init starts the client initialisation when the model
\* starts in Loading (the cursor and spinner animations are left out).
ModelInit(m) == IF m.state = "Loading" THEN initializeClient ELSE NoCmd

\* configurations the program may be started with
Configs == { NewConfig(a, b, c) : a, b, c \in {<<>>, <<"q">>} }

\* the application started with any configuration
InitSetup ==
  /\ \E cfg \in Configs : app = NewModelFor(cfg)
  /\ pending = ModelInit(app)
  /\ issuedDetail = Nil
  /\ logFrom = ""

\* model.go:106-122: Init starts the client initialisation.
InitApp ==
  /\ app = NewModel
  /\ pending = initializeClient
  /\ issuedDetail = Nil
  /\ logFrom = ""

\* The job of a views job-detail fetch among cmds, else the one before.
IssuedDetail(cmds, before) ==
  LET ds == { c \in BagToSet(cmds) : c.tab = "views" /\ c.kind = "fetchJobDetail" }
  IN IF ds = {} THEN before ELSE (CHOOSE c \in ds : TRUE).arg

\* The mode the log view was opened from, "" outside the log view.
LogFrom(modeBefore, modeAfter, before) ==
  CASE modeAfter # "LogView" -> ""
    [] modeBefore # "LogView" -> modeBefore
    [] OTHER -> before

DataMsgs == {"DashboardDataMsg", "ViewsDataMsg", "BuildsDataMsg"}

\* the tab a result Message is for
TabOf(msg) ==
  CASE msg.type = "DashboardDataMsg" -> TabDashboard
    [] msg.type = "ViewsDataMsg" -> TabViews
    [] msg.type = "BuildsDataMsg" -> TabBuilds

\* no field of the setup wizard holds more than MaxInput characters
InputsWithin(su) ==
  /\ Len(su.urlInput) <= MaxInput
  /\ Len(su.usernameInput) <= MaxInput
  /\ Len(su.tokenInput) <= MaxInput

\* no search input holds more than MaxInput characters
SearchWithin(m) ==
  /\ Len(m.views.filter) <= MaxInput
  /\ Len(m.builds.searchInput) <= MaxInput

\* One call of Model.Update with msg, after which the Commands it returned
\* are in flight.
Deliver(msg, rest) ==
  LET u == Update(app, msg) IN
  /\ ~app.quit
  /\ BagCardinality(rest (+) u.cmds) <= MaxPending
  /\ InputsWithin(u.m.setup)
  /\ SearchWithin(u.m)
  /\ app' = u.m
  /\ pending' = rest (+) u.cmds
  /\ issuedDetail' = IssuedDetail(u.cmds, issuedDetail)
  /\ logFrom' = LogFrom(app.builds.mode, u.m.builds.mode, logFrom)

\* the user presses key k
Key(k) == Deliver(KeyMsg(k), pending)

\* Command c ends in msg
Complete(c, msg) ==
  /\ BagIn(c, pending)
  /\ msg \in Results(c)
  /\ Deliver(msg, pending (-) One(c))

\* keys pressed while moving between the dashboard and the views tab
AppKeys == {"q", "r", "1", "2"}

\* keys pressed inside the views tab
ViewsKeys == {"enter", "esc", "j", "k", "r"}

\* the Commands in flight
InFlight == BagToSet(pending)

Completes == \E c \in InFlight : \E msg \in Results(c) : Complete(c, msg)

NextApp ==
  \/ \E k \in AppKeys : Key(k)
  \/ Completes

NextViews ==
  \/ \E k \in ViewsKeys : Key(k)
  \/ Completes

\* keys pressed in the setup wizard and up to the dashboard
SetupKeys == {"q", "ctrl+c", "r", " ", "enter"}

NextSetup ==
  \/ \E k \in SetupKeys : Key(k)
  \/ Completes

\* keys pressed inside the builds tab
BuildsKeys == {"enter", "esc", "l"}

NextBuilds ==
  \/ \E k \in BuildsKeys : Key(k)
  \/ Completes

\* The views tab open on the loaded list of views, only the refresh timer
\* in flight: after start-up the dashboard's four results arrived, the user
\* pressed "2" and the views arrived.
ViewsStart ==
  /\ app = [ initTabModels(NewModel) EXCEPT
               !.state = "Ready", !.activeTab = TabViews,
               !.dash = [NewDashboardModel EXCEPT
                           !.rootInfo = "R1", !.nodes = "N1", !.queue = "Q1",
                           !.runningBuilds = ExtractRunningBuilds("N1"),
                           !.recentBuilds = ProcessJobs("J1"), !.loading = FALSE],
               !.views = [NewViewsModel EXCEPT !.views = <<"V1">>, !.loading = FALSE] ]
  /\ pending = scheduleAutoRefresh(NewModel)
  /\ issuedDetail = Nil
  /\ logFrom = ""

\* The builds tab open on its loaded job list, only the refresh timer in
\* flight: after start-up the dashboard's four results arrived, the user
\* pressed "3" and the jobs arrived.
BuildsStart ==
  /\ app = [ initTabModels(NewModel) EXCEPT
               !.state = "Ready", !.activeTab = TabBuilds,
               !.dash = [NewDashboardModel EXCEPT
                           !.rootInfo = "R1", !.nodes = "N1", !.queue = "Q1",
                           !.runningBuilds = ExtractRunningBuilds("N1"),
                           !.recentBuilds = ProcessJobs("J1"), !.loading = FALSE],
               !.builds = [NewBuildsModel EXCEPT !.jobs = <<"A", "B">>, !.loading = FALSE] ]
  /\ pending = scheduleAutoRefresh(NewModel)
  /\ issuedDetail = Nil
  /\ logFrom = ""


\* keys pressed once the wizard was submitted twice
ResubmitKeys == {"ctrl+r", "r"}

NextResubmit ==
  \/ \E k \in ResubmitKeys : Key(k)
  \/ Completes

\* The dashboard loaded after the wizard was submitted twice: the user
\* filled the three fields and pressed enter on the submit field two times,
\* both connection tests succeeded, the first SetupCompleteMsg was saved,
\* the client became ready and the dashboard's four results arrived; the
\* second SetupCompleteMsg and the refresh timer are in flight.
ResubmitStart ==
  /\ app = [ initTabModels(NewModel) EXCEPT
               !.state = "Ready",
               !.dash = [NewDashboardModel EXCEPT
                           !.rootInfo = "R1", !.nodes = "N1", !.queue = "Q1",
                           !.runningBuilds = ExtractRunningBuilds("N1"),
                           !.recentBuilds = ProcessJobs("J1"), !.loading = FALSE] ]
  /\ pending = scheduleAutoRefresh(NewModel)
                 (+) One(CmdWith("setup", "setupComplete", "", 0, "", NewModel.config))
  /\ issuedDetail = Nil
  /\ logFrom = ""


\* keys pressed in the wizard once its fields are filled
WizardKeys == {"enter", "up", "backspace"}

NextWizard ==
  \/ \E k \in WizardKeys : Key(k)
  \/ Completes

\* keys pressed around the search input of the views and the builds tab
SearchKeys == {"/", "w", "q", "?", "2", "3", "esc"}

NextSearch ==
  \/ \E k \in SearchKeys : Key(k)
  \/ Completes

\* The views tab open on a loaded list of two views, only the refresh timer
\* in flight.
SearchStart ==
  /\ app = [ initTabModels(NewModel) EXCEPT
               !.state = "Ready", !.activeTab = TabViews,
               !.dash = [NewDashboardModel EXCEPT
                           !.rootInfo = "R1", !.nodes = "N1", !.queue = "Q1",
                           !.runningBuilds = ExtractRunningBuilds("N1"),
                           !.recentBuilds = ProcessJobs("J1"), !.loading = FALSE],
               !.views = [NewViewsModel EXCEPT !.views = <<"V1", "W2">>, !.loading = FALSE] ]
  /\ pending = scheduleAutoRefresh(NewModel)
  /\ issuedDetail = Nil
  /\ logFrom = ""

\* The wizard with its three fields filled and the submit field focused:
\* started without configuration, the user typed q and pressed enter three
\* times.
WizardStart ==
  /\ app = [ NewModelFor(DefaultConfig) EXCEPT
               !.setup = [NewSetupModel EXCEPT
                            !.urlInput = <<"q">>, !.usernameInput = <<"q">>,
                            !.tokenInput = <<"q">>, !.focusedField = FieldSubmit] ]
  /\ pending = NoCmd
  /\ issuedDetail = Nil
  /\ logFrom = ""

(***************************************************************************)
(* Part IV - the auto-refresh timer on a time line                         *)
(*                                                                         *)
(* The application is Ready with auto-refresh enabled.  A tick fires       *)
(* Interval after it was armed; the load a tick dispatches takes one of    *)
(* LoadTimes to settle.                                                    *)
(***************************************************************************)
\* part_007:37: the default auto_refresh_seconds
Interval == 10

\* how long a load takes to settle: shorter and longer than the interval
LoadTimes == {5, 15}

\* model.go:226-232: on ClientReadyMsg the first load is dispatched and the
\* timer armed; the first load is a slow one.
InitTimer ==
  /\ now = 0
  /\ tickAt = Interval
  /\ loads = {15}
  /\ settledAt = -1

\* model.go:375-382: tea.Tick(interval) fires interval after it is armed.
ArmedAt(t) == t + Interval

\* model.go:240-246: AutoRefreshTickMsg dispatches the load of the active
\* tab and arms the next tick in the same batch.
TickFires(d) ==
  /\ now = tickAt
  /\ loads' = loads \cup {now + d}
  /\ tickAt' = ArmedAt(now)
  /\ UNCHANGED <<now, settledAt>>

\* the result Messages of a load arrive
LoadSettles ==
  /\ now \in loads
  /\ loads' = loads \ {now}
  /\ settledAt' = now
  /\ UNCHANGED <<now, tickAt>>

\* time passes when nothing is due
Advance ==
  /\ now < MaxTime
  /\ now # tickAt
  /\ now \notin loads
  /\ now' = now + 1
  /\ UNCHANGED <<tickAt, loads, settledAt>>

NextTimer ==
  \/ \E d \in LoadTimes : TickFires(d)
  \/ LoadSettles
  \/ Advance


(***************************************************************************)
(* Part V - the dashboard model receiving the results of its fetches       *)
(***************************************************************************)
\* setup.go:1096-1130: the Messages of the four fetches when they succeed
DashSuccess ==
  { msg \in UNION { Results(c) : c \in BagToSet(DashLoadData(NewDashboardModel).cmds) } :
      msg.Error = Nil }

\* setup.go:383-403: the merge of a DashboardDataMsg at time t, with
\* m.lastUpdate = time.Now() (setup.go:386)
DashMergeAt(dl, msg, t) == [m |-> DashMerge(dl.m, msg), lastUpdate |-> t]

\* setup.go:348-360: lastUpdate is the zero time
InitMerge ==
  /\ dashboard = [m |-> NewDashboardModel, lastUpdate |-> 0]
  /\ clock = 1
  /\ merged = {}
  /\ merges = 0

\* msg arrives and is merged
Merge(msg) ==
  /\ merges < MaxMerges
  /\ dashboard' = DashMergeAt(dashboard, msg, clock)
  /\ merged' = merged \cup {msg}
  /\ merges' = merges + 1
  /\ UNCHANGED clock

\* the clock shows the next second
ClockTicks ==
  /\ clock < MaxClock
  /\ clock' = clock + 1
  /\ UNCHANGED <<dashboard, merged, merges>>

NextMerge ==
  \/ \E msg \in DashSuccess : Merge(msg)
  \/ ClockTicks

(***************************************************************************)
(* Part VI - Client.GetJob, one request after the other                    *)
(***************************************************************************)
\* part_003:421: the loop of GetJob stops at this index
StageCap == 10

\* the loop bound without the cap
EnrichLimitAll(n) == n

\* part_003:421: i < len(job.Builds) && i < 10
EnrichLimit(n) == IF n < StageCap THEN n ELSE StageCap

\* part_003:412-416: the builds of the decoded job detail, without stages
JobBuilds(n) == [k \in 1..n |-> [Number |-> k, Stages |-> NilList]]

\* before the call
NewGetJob ==
  [ pc |-> "start",       \* start, wfapi, blueocean, done
    builds |-> <<>>,      \* job.Builds
    i |-> 0,              \* the loop variable
    requests |-> 0,       \* getJSON calls made so far, one GET each (client.go:239-240)
    calls |-> 0,          \* getJSON calls made for build i
    wfErr |-> Nil,        \* the error of the wfapi call for build i
    stageErr |-> FALSE,   \* some stage lookup failed
    job |-> Nil, err |-> Nil ]   \* the values GetJob returns

InitJob == gj = NewGetJob

\* part_003:421: the loop goes on to build i or GetJob returns (&job, nil)
LoopAt(g, i) ==
  IF i < EnrichLimit(Len(g.builds))
  THEN [g EXCEPT !.i = i, !.pc = "wfapi", !.calls = 0, !.wfErr = Nil]
  ELSE [g EXCEPT !.i = i, !.pc = "done", !.job = "job", !.err = Nil]

\* part_003:412-417: the job-detail request fails or returns n builds
JobRequest(n, e) ==
  /\ gj.pc = "start"
  /\ gj' = IF e # Nil
           THEN [gj EXCEPT !.requests = @ + 1, !.pc = "done", !.job = Nil, !.err = e]
           ELSE LoopAt([gj EXCEPT !.requests = @ + 1, !.builds = JobBuilds(n)], 0)

\* part_003:538-541, 548-585: the wfapi request for build i; its stages are
\* stored (part_003:423-425) or the fallback is tried
WFAPIRequest(e) ==
  /\ gj.pc = "wfapi"
  /\ gj' = IF e = Nil
           THEN LoopAt([gj EXCEPT !.requests = @ + 1, !.calls = @ + 1,
                                  !.builds[gj.i + 1].Stages = <<"s1">>], gj.i + 1)
           ELSE [gj EXCEPT !.requests = @ + 1, !.calls = @ + 1, !.wfErr = e,
                           !.stageErr = TRUE, !.pc = "blueocean"]

\* part_003:544, 588-635: the Blue Ocean request for build i; its error is
\* dropped (part_003:594-597) and the build keeps no stages
BlueOceanRequest(e) ==
  /\ gj.pc = "blueocean"
  /\ gj' = IF e = Nil
           THEN LoopAt([gj EXCEPT !.requests = @ + 1, !.calls = @ + 1,
                                  !.builds[gj.i + 1].Stages = <<"b1">>], gj.i + 1)
           ELSE LoopAt([gj EXCEPT !.requests = @ + 1, !.calls = @ + 1], gj.i + 1)

\* the outcomes of one getJSON call
Errs == {Nil, "E"}

NextJob ==
  \/ \E n \in 0..MaxBuilds, e \in Errs : JobRequest(n, e)
  \/ \E e \in Errs : WFAPIRequest(e)
  \/ \E e \in Errs : BlueOceanRequest(e)

(***************************************************************************)
(* Specifications                                                          *)
(***************************************************************************)
Init == InitClient /\ InitLimiter /\ InitApp /\ InitTimer /\ InitMerge /\ InitJob

Next == NextClient /\ UNCHANGED <<limVars, appVars, timerVars, mergeVars, jobVars>>

\* the protocol client
Spec == Init /\ [][Next]_vars

\* one GetJob call
SpecJob ==
  Init /\ [][NextJob /\ UNCHANGED <<clientVars, limVars, appVars, timerVars, mergeVars>>]_vars

\* the limiter on its time line
SpecLimiter == Init /\ [][NextLimiter /\ UNCHANGED <<clientVars, appVars, timerVars, mergeVars, jobVars>>]_vars

\* the application from start-up
SpecApp == Init /\ [][NextApp /\ UNCHANGED <<clientVars, limVars, timerVars, mergeVars, jobVars>>]_vars

\* the views tab from its loaded list
InitViews == InitClient /\ InitLimiter /\ ViewsStart /\ InitTimer /\ InitMerge /\ InitJob

SpecViews == InitViews /\ [][NextViews /\ UNCHANGED <<clientVars, limVars, timerVars, mergeVars, jobVars>>]_vars

\* the builds tab from its loaded job list
InitBuilds == InitClient /\ InitLimiter /\ BuildsStart /\ InitTimer /\ InitMerge /\ InitJob

SpecBuilds == InitBuilds /\ [][NextBuilds /\ UNCHANGED <<clientVars, limVars, timerVars, mergeVars, jobVars>>]_vars

\* the application started with any configuration, through the wizard
InitWizard == InitClient /\ InitLimiter /\ InitSetup /\ InitTimer /\ InitMerge /\ InitJob

SpecSetup ==
  InitWizard /\ [][NextSetup /\ UNCHANGED <<clientVars, limVars, timerVars, mergeVars, jobVars>>]_vars

\* the application after the wizard was submitted twice
InitResubmit == InitClient /\ InitLimiter /\ ResubmitStart /\ InitTimer /\ InitMerge /\ InitJob

SpecResubmit ==
  InitResubmit /\ [][NextResubmit /\ UNCHANGED <<clientVars, limVars, timerVars, mergeVars, jobVars>>]_vars

\* the wizard from its filled form
InitFilled == InitClient /\ InitLimiter /\ WizardStart /\ InitTimer /\ InitMerge /\ InitJob

SpecWizard ==
  InitFilled /\ [][NextWizard /\ UNCHANGED <<clientVars, limVars, timerVars, mergeVars, jobVars>>]_vars

\* the search input from the loaded list of views
InitSearch == InitClient /\ InitLimiter /\ SearchStart /\ InitTimer /\ InitMerge /\ InitJob

SpecSearch ==
  InitSearch /\ [][NextSearch /\ UNCHANGED <<clientVars, limVars, timerVars, mergeVars, jobVars>>]_vars

\* the refresh timer fires
TickDone ==
  /\ Complete(Cmd("app", "autoRefreshTick", ""), [type |-> "AutoRefreshTickMsg"])
  /\ UNCHANGED <<clientVars, limVars, timerVars, mergeVars, jobVars>>

\* a Command other than the timer ends
WorkDone ==
  /\ \E c \in InFlight :
       c.kind # "autoRefreshTick" /\ \E msg \in Results(c) : Complete(c, msg)
  /\ UNCHANGED <<clientVars, limVars, timerVars, mergeVars, jobVars>>

\* SpecApp where every timer fires (tea.Tick, model.go:375-382) and every
\* other Command ends (each fetch has a 30 s deadline)
FairApp == SpecApp /\ SF_vars(TickDone) /\ WF_vars(WorkDone)

\* the dashboard model receiving the results of its four fetches
SpecMerge ==
  Init /\ [][NextMerge /\ UNCHANGED <<clientVars, limVars, appVars, timerVars, jobVars>>]_vars

\* the auto-refresh timer on its time line
SpecTimer == Init /\ [][NextTimer /\ UNCHANGED <<clientVars, limVars, appVars, mergeVars, jobVars>>]_vars

(***************************************************************************)
(* Claims about the protocol client                                        *)
(***************************************************************************)
Done(r) == call[r].pc = "done"

\* the call entered crumb negotiation: its first attempt was a 403 on a
\* mutating request that found the crumb untested
Negotiated(r) ==
  /\ call[r].method # "GET"
  /\ call[r].first403
  /\ ~call[r].firstTested

\* C1: when mutating requests running concurrently get 403 while the crumb
\* is untested, exactly one request goes to the crumb issuer over the
\* client's lifetime, whatever the interleaving.
C1_ExactlyOneIssuerCall ==
  ( /\ \A r \in Reqs : Done(r) /\ call[r].expired = "none"
    /\ \E r \in Reqs : Negotiated(r) )
  => issuerCalls = 1

C2_Inv ==
  \A r \in Reqs :
    /\ call[r].attempts <= 2
    /\ call[r].issuer <= 1
    /\ call[r].attempts = 2 => Negotiated(r) /\ call[r].issuer = 1
    /\ call[r].issuer = 1 => Negotiated(r)
    /\ Done(r) =>
         \/ call[r].attempts = 1
         \/ call[r].attempts = 0 /\ call[r].expired = "orig"
         \/ Negotiated(r)
    /\ (call[r].attempts >= 1 /\ ~Negotiated(r)) => Done(r) \/ call[r].pc = "recv"

\* how far a call has got: every step of a call moves it forward
Rank(c) ==
  CASE c.pc = "idle"  -> 0
    [] c.pc = "wait"  -> IF c.attempts = 0 THEN 1 ELSE 8
    [] c.pc = "send"  -> IF c.attempts = 0 THEN 2 ELSE 9
    [] c.pc = "recv"  -> IF c.attempts = 1 THEN 3 ELSE 10
    [] c.pc = "lock"  -> 4
    [] c.pc = "cwait" -> 5
    [] c.pc = "csend" -> 6
    [] c.pc = "crecv" -> 7
    [] OTHER          -> 11

\* a call that was issued and has not returned can take a step, or waits
\* for the crumb lock while the lock's owner can take one
CanProceed(r) ==
  \/ ENABLED CallStep(r)
  \/ /\ crumbMu \in Reqs \ {r}
     /\ ENABLED CallStep(crumbMu)

C3_AlwaysForbidden ==
  /\ \A r \in Reqs :
       (Done(r) /\ call[r].method # "GET" /\ call[r].expired = "none") =>
         /\ srvAll403 =>
              /\ call[r].result = "forbidden"
              /\ call[r].attempts = 1
              /\ call[r].issuer = IF call[r].firstTested THEN 0 ELSE 1
         /\ (call[r].first403 /\ call[r].firstTested) =>
              /\ call[r].result = "forbidden"
              /\ call[r].attempts = 1
              /\ call[r].issuer = 0
  /\ \A r \in Reqs : (call[r].issuer >= 1 \/ call[r].expired = "issuer") => crumbTested
  /\ (srvAll403 /\ crumbTested) => crumb = "" /\ crumbField = ""

\* C3 witness: after one POST failed on an all-403 server with its one
\* issuer attempt, a later POST got its 403 and returned without another.
C3_Witness ==
  \E r, q \in Reqs :
    /\ r # q
    /\ srvAll403
    /\ Done(r) /\ call[r].method = "POST" /\ call[r].issuer = 1
    /\ call[r].result = "forbidden" /\ call[r].attempts = 1
    /\ Done(q) /\ call[q].method = "POST" /\ call[q].firstTested
    /\ call[q].result = "forbidden" /\ call[q].issuer = 0
    /\ issuerCalls = 1

\* C4: when a mutating request got 403 with no crumb cached and the issuer
\* answered 200 with a crumb value and field name, the request is retried
\* once carrying that header, every mutating request sent from then on
\* carries the cached header, and the issuer is never called again.
C4_CrumbReused ==
  \A r \in Reqs :
    (call[r].got # NoHeader /\ call[r].got[1] # "" /\ call[r].got[2] # "") =>
      /\ issuerCalls = 1
      /\ call[r].attempts = 2 => call[r].hdr = call[r].got
      /\ crumb = call[r].got[2] /\ crumbField = call[r].got[1]

\* C5: a step of a GET call changes neither the cached crumb, the field
\* name, the tested flag or the crumb lock, nor does it send an issuer
\* request; of the client's shared state it changes the token count only.
C5_GetLeavesCrumb ==
  [][ \A r \in Reqs :
        (call'[r] # call[r] /\ call'[r].method = "GET") =>
          UNCHANGED <<crumb, crumbField, crumbTested, crumbMu, issuerCalls>> ]_vars

\* C5 witness: a GET ended in 403 and the crumb is still untested, with no
\* issuer request made.
C5_Witness ==
  \E r \in Reqs :
    /\ Done(r) /\ call[r].method = "GET"
    /\ call[r].first403 /\ call[r].result = "forbidden"
    /\ ~crumbTested /\ issuerCalls = 0 /\ tokens < RPS

\* tokens a call holds for an attempt it has not sent yet
Pending(r) == IF call[r].pc \in {"send", "csend"} THEN 1 ELSE 0

C6_WindowAtMostRPS ==
  /\ WindowSum <= RPS
  /\ (atOnce /\ issued = 2 * RPS) => firstSecond <= RPS

\* C6 amended: the tokens consumed within any one second never exceed the
\* full bucket plus what is refilled during that second, which is less than
\* 2*RPS (and can exceed RPS); in any window of k slots at most RPS + k - 1
\* are consumed, so the long-run rate is RPS; of 2*RPS requests issued at
\* once, RPS pass immediately and the rest one per 1/RPS second, so up to
\* 2*RPS - 1 pass within the first second.
C6_WindowBelowTwiceRPS ==
  /\ WindowSum <= 2 * RPS - 1
  /\ firstSecond <= 2 * RPS - 1
  /\ \A k \in 1..RPS : SumSeq(SubSeq(window, 1, k)) <= RPS + k - 1
  /\ bucket \in 0..Burst
  /\ slot = 0 => firstSecond <= RPS

\* C6 witness: 2*RPS requests were issued at once and more than RPS of them,
\* 2*RPS - 1, passed the limiter within the first second.
C6_Witness ==
  /\ atOnce
  /\ issued >= 2 * RPS
  /\ slot < RPS
  /\ firstSecond = 2 * RPS - 1
  /\ WindowSum = 2 * RPS - 1

(***************************************************************************)
(* Claims about the application and its tab models                         *)
(***************************************************************************)
\* the step is the arrival of result Message msg of Command c
Arrives(c, msg) == msg.type \in DataMsgs /\ Complete(c, msg)

\* msg was merged into the model of the tab it is for
MergedIntoItsTab(msg) ==
  CASE msg.type = "DashboardDataMsg" -> app'.dash = DashMerge(app.dash, msg)
    [] msg.type = "ViewsDataMsg" -> app'.views = ViewsMerge(app.views, msg)
    [] msg.type = "BuildsDataMsg" -> app'.builds = BuildsMerge(app.builds, msg)

\* C8: a result Message is always merged into the Tab Model it is for,
\* whether or not that tab is the active one when the Message arrives; no
\* result Message is dropped without a state change or a recorded error.
\* (The code hands the Message to the active tab only.)
C8_ResultReachesItsTab ==
  [][ \A c \in InFlight : \A msg \in Results(c) :
        (app.hasTabs /\ Arrives(c, msg)) => MergedIntoItsTab(msg) ]_vars

\* C9: when job-detail fetches for different selections are in flight at
\* once, a later-arriving response to the older fetch does not overwrite the
\* detail of the most recently issued selection.
\* (The code lets whichever response arrives last win.)
C9_NewestSelectionWins ==
  [][ \A c \in InFlight : \A msg \in Results(c) :
        ( /\ c.tab = "views" /\ c.kind = "fetchJobDetail"
          /\ c.arg # issuedDetail
          /\ app.views.mode = "JobDetail"
          /\ app.views.jobDetail = issuedDetail
          /\ Arrives(c, msg) )
        => app'.views.jobDetail = issuedDetail ]_vars

\* the data a tab model has fetched
FetchedData(m) ==
  << m.dash.rootInfo, m.dash.nodes, m.dash.queue, m.dash.runningBuilds,
     m.dash.recentBuilds,
     m.views.views, m.views.jobs, m.views.jobDetail,
     m.builds.jobs, m.builds.jobDetail, m.builds.builds, m.builds.buildDetail,
     m.builds.pipelineRun, m.builds.logContent >>

\* C10: in the Ready state the arrival of a failed fetch's Message leaves
\* the global state Ready and every fetched data field as it was.
\* (A failed root-info or queue fetch carries a zero value, which replaces
\* the value fetched before.)
C10_FailureKeepsData ==
  [][ \A c \in InFlight : \A msg \in Results(c) :
        (app.state = "Ready" /\ Arrives(c, msg) /\ msg.Error # Nil)
        => (app'.state = "Ready" /\ FetchedData(app') = FetchedData(app)) ]_vars

\* the mode a mode of the builds tab is entered from, one level up
BuildsParent(mode) ==
  CASE mode = "BuildList" -> "JobList"
    [] mode = "BuildDetail" -> "BuildList"
    [] mode = "StageLogView" -> "BuildDetail"
    [] mode = "LogView" -> logFrom
    [] OTHER -> mode

\* the mode a mode of the views tab is entered from, one level up
ViewsParent(mode) ==
  CASE mode = "Jobs" -> "List"
    [] mode = "JobDetail" -> "Jobs"
    [] OTHER -> mode

\* the step is the press of Esc handled by the active tab
EscStep == Key("esc") /\ app.state = "Ready" /\ ~app.showHelp

\* C11: in every tab Esc returns to the mode from which the current mode was
\* entered: a log view opened from the build list returns to the build list,
\* one opened from the build detail returns to the build detail.
\* (The code always leaves the log view for the build detail.)
C11_EscReturnsToOrigin ==
  [][ EscStep =>
        /\ app.activeTab = TabBuilds => app'.builds.mode = BuildsParent(app.builds.mode)
        /\ app.activeTab = TabViews => app'.views.mode = ViewsParent(app.views.mode) ]_vars

\* C12: after a back action the data owned by the exited level stays
\* discarded until a fetch for a new selection completes: a response still
\* in flight for the exited level does not repopulate the model.
\* (The code merges the late response whatever the mode is.)
C12_ExitedLevelStaysDiscarded ==
  /\ app.views.mode = "List" => app.views.jobs = NilList
  /\ app.views.mode # "JobDetail" => app.views.jobDetail = Nil
  /\ app.builds.mode = "JobList" => (app.builds.jobDetail = Nil /\ app.builds.builds = NilList)
  /\ app.builds.mode \in {"JobList", "BuildList"} =>
       (app.builds.buildDetail = NilBuild /\ app.builds.pipelineRun = NilList)

\* the tab a tab-switch key addresses
Addressed(k, active) ==
  CASE k = "tab" -> (active + 1) % 3
    [] k = "shift+tab" -> (active + 2) % 3
    [] k = "1" -> TabDashboard
    [] k = "2" -> TabViews
    [] k = "3" -> TabBuilds

\* the data of tab t have been fetched
Loaded(m, t) ==
  CASE t = TabDashboard ->
         /\ m.dash.rootInfo # Nil /\ m.dash.nodes # Nil
         /\ m.dash.queue # Nil /\ m.dash.recentBuilds # Nil
    [] t = TabViews -> m.views.views # NilList
    [] t = TabBuilds -> m.builds.jobs # NilList

\* C13: in Ready every tab-switch key leaves the state Ready, makes the
\* addressed tab active and dispatches that tab's load only if the tab has
\* not been loaded yet.
\* (The code dispatches the load on every switch.)
C13_SwitchLoadsOnlyUnloaded ==
  [][ \A k \in {"tab", "shift+tab", "1", "2", "3"} :
        (app.state = "Ready" /\ Key(k)) =>
          /\ app'.state = "Ready"
          /\ app'.activeTab = Addressed(k, app.activeTab)
          /\ Loaded(app, Addressed(k, app.activeTab)) => pending' = pending ]_vars

(***************************************************************************)
(* Claims about the auto-refresh timer                                     *)
(***************************************************************************)
\* C14: the next tick is armed only after the work dispatched by the current
\* tick has settled: a tick never fires while a load is in flight, and it
\* fires Interval after the last load settled.
\* (The code arms the next tick when the tick is handled, so ticks fire at
\* a fixed Interval from one another.)
C14_TickAfterLoadSettled ==
  [][ (\E d \in LoadTimes : TickFires(d)) =>
        (loads = {} /\ now = settledAt + Interval) ]_vars

(***************************************************************************)
(* Claims about the application states                                     *)
(***************************************************************************)
\* a Message that reports a failure of the set-up or of the start-up
Failure(msg) ==
  \/ msg.type = "testConnectionResult" /\ msg.err # Nil
  \/ msg.type = "SetupCompleteMsg" /\ msg.saveErr # Nil
  \/ msg.type = "ClientErrorMsg"

\* a field of the wizard is empty once trimmed
MissingField(su) ==
  \/ TrimSpace(su.urlInput) = <<>>
  \/ TrimSpace(su.usernameInput) = <<>>
  \/ TrimSpace(su.tokenInput) = <<>>

\* the wizard is submitted with a field missing
SubmitMissing ==
  /\ app.state = "Setup" /\ app.hasSetup
  /\ app.setup.focusedField = FieldSubmit /\ MissingField(app.setup)
  /\ Key("enter")

\* a failure arrives in Setup or in Loading
FailureArrives ==
  /\ app.state \in {"Setup", "Loading"}
  /\ \E c \in InFlight : \E msg \in Results(c) : Failure(msg) /\ Complete(c, msg)

\* C15: every failure in Setup (missing field, failed connection test,
\* failure to persist) or in Loading puts the state in Error with the cause
\* retained, and the state leaves Error only by the retry key.
\* (The code keeps the state Setup and shows the error in the wizard when a
\* field is missing or the connection test fails.)
C15_FailuresAreFatal ==
  [][ /\ (SubmitMissing \/ FailureArrives) =>
            (app'.state = "Error" /\ app'.lastError # Nil)
      /\ (app.state = "Error" /\ app'.state # "Error") => Key("r") ]_vars

\* C16: in every state q and ctrl+c quit the application.
\* (In Setup the code types q into the focused field.)
C16_QuitKeysQuitEverywhere ==
  ~app.quit => \A k \in {"q", "ctrl+c"} : Update(app, KeyMsg(k)).m.quit

\* C16, amended: ctrl+c quits in every state, q quits in Loading, Ready and
\* Error and in Setup it is handed to the wizard, which does not quit.
C16_QuitKeys ==
  ~app.quit =>
    /\ Update(app, KeyMsg("ctrl+c")).m.quit
    /\ Update(app, KeyMsg("q")).m.quit <=> app.state # "Setup"
    /\ app.state = "Setup" =>
          Update(app, KeyMsg("q")).m = [app EXCEPT !.setup = SetupType(app.setup, "q")]

\* ctrl+c quit the application from the wizard
C16_QuitInSetup == app.quit /\ app.state = "Setup"

\* the auto-refresh timer Command
Tick == Cmd("app", "autoRefreshTick", "")

\* the client initialisation c succeeds while the state is Loading
ClientReadyInLoading(c) ==
  /\ app.state = "Loading"
  /\ c.kind = "initializeClient"
  /\ Complete(c, [type |-> "ClientReadyMsg"])

\* C17: when the client initialisation succeeds in Loading, the state
\* becomes Ready, the three tab models exist, the load of the active tab is
\* dispatched and exactly one auto-refresh timer is armed.
\* (After a second SetupCompleteMsg sent a Ready application with
\* auto-refresh switched off back to Loading, no timer is armed.)
C17_ReadyArmsOneTimer ==
  [][ \A c \in InFlight :
        ClientReadyInLoading(c) =>
          /\ app'.state = "Ready"
          /\ app'.hasTabs
          /\ loadTabData(initTabModels(app)).cmds \sqsubseteq pending'
          /\ CopiesIn(Tick, pending') = CopiesIn(Tick, pending) + 1 ]_vars

\* the Command that constructs and probes the client
InitClientCmd == Cmd("app", "initializeClient", "")

\* C18: the retry key in Error moves the state to Loading, clears the
\* retained cause and starts exactly one client construction; in Setup,
\* Loading and Ready it starts no client construction and leaves the state
\* as it is.
C18_Retry ==
  ~app.quit =>
    LET u == Update(app, KeyMsg("r")) IN
    IF app.state = "Error"
    THEN /\ u.m.state = "Loading"
         /\ u.m.lastError = Nil
         /\ u.cmds = One(InitClientCmd)
    ELSE /\ u.m.state = app.state
         /\ ~BagIn(InitClientCmd, u.cmds)

\* the retry after config.Save failed: Loading with the wizard still there
C18_Retried ==
  /\ app.state = "Loading" /\ app.hasSetup /\ app.lastError = Nil
  /\ BagIn(InitClientCmd, pending)

\* the configuration lacks a base URL, a user name or an API token
Lacks(cfg) == cfg.BaseURL = <<>> \/ cfg.Username = <<>> \/ cfg.APIToken = <<>>

\* C19: a new application model is in Setup with a wizard model exactly
\* when the configuration lacks a base URL, a user name or an API token,
\* and else in Loading without a wizard model; Init starts the client
\* initialisation only in Loading.
C19_NewModelStart ==
  \A cfg \in Configs :
    app = NewModelFor(cfg) =>
      /\ (app.state = "Setup" /\ app.hasSetup) <=> Lacks(cfg)
      /\ ~Lacks(cfg) => (app.state = "Loading" /\ ~app.hasSetup)
      /\ ModelInit(app) = IF app.state = "Loading" THEN One(InitClientCmd) ELSE NoCmd

\* started with a user name only: the wizard is shown and nothing runs
C19_StartedInSetup ==
  /\ app = NewModelFor(NewConfig(<<>>, <<"q">>, <<>>))
  /\ app.state = "Setup" /\ pending = NoCmd

(***************************************************************************)
(* Claims about the merge of the dashboard's data                          *)
(***************************************************************************)
\* the dashboard model holding the four payloads
DashFull ==
  [NewDashboardModel EXCEPT
     !.rootInfo = "R1", !.nodes = "N1", !.queue = "Q1",
     !.runningBuilds = ExtractRunningBuilds("N1"),
     !.recentBuilds = ProcessJobs("J1"), !.loading = FALSE]

\* a Message that was merged before is merged again
MergedAgain == \E msg \in merged : Merge(msg)

C21_TabModelsKept ==
  [][ app.hasTabs =>
        /\ app'.hasTabs
        /\ Loaded(app, TabDashboard) => Loaded(app', TabDashboard) ]_vars

\* the load of the active tab is dispatched and one more timer is armed
TickReloads(c) ==
  /\ loadTabData(app).cmds \sqsubseteq pending'
  /\ loadTabData(app).cmds # NoCmd
  /\ app'.activeTab = app.activeTab
  /\ CopiesIn(Tick, pending') = CopiesIn(Tick, pending (-) One(c)) + 1

\* Ready with auto-refresh enabled
ReadyOn == app.state = "Ready" /\ app.autoRefreshEnabled /\ ~app.quit

C25_OneTimer == CopiesIn(Tick, pending) <= 1

\* a client-ready or client-error Message arrives outside Loading
LateClientMsg ==
  /\ app.state # "Loading"
  /\ \E c \in InFlight : \E msg \in Results(c) :
       msg.type \in {"ClientReadyMsg", "ClientErrorMsg"} /\ Complete(c, msg)

\* C27: once Ready the application stays Ready; at most one client
\* initialisation is in flight; a client-ready or client-error Message
\* arriving outside Loading changes nothing.
\* (SetupCompleteMsg sets Loading and starts an initialisation in every
\* state, and the client Messages are handled in every state.)
C27_ReadyStaysReady ==
  [][ /\ app.state = "Ready" => app'.state = "Ready"
      /\ CopiesIn(InitClientCmd, pending') <= 1
      /\ LateClientMsg => app' = app ]_vars

\* the Commands a step put in flight when Command c ended
Started(c) == pending' (-) (pending (-) One(c))

\* C28: when a connection test succeeds in the wizard, the configuration
\* handed over is the configuration that was tested.
\* (The tested configuration is built from the trimmed fields when enter is
\* pressed, the one handed over from the fields as they are when the
\* result arrives.)
C28_HandsOverTested ==
  [][ \A c \in InFlight :
        ( /\ c.kind = "testConnection" /\ app.state = "Setup"
          /\ Complete(c, [type |-> "testConnectionResult", err |-> Nil]) ) =>
            Started(c) = One(CmdWith("setup", "setupComplete", "", 0, "", c.cfg)) ]_vars

\* C29: the state is Error exactly when a failure cause is retained; Ready
\* only if the tab models (built with the client) exist; Setup only if the
\* wizard model exists.
\* (A SetupCompleteMsg that arrives in Error sets Loading and keeps the
\* cause.)
C29_StateInvariants ==
  /\ app.state = "Error" <=> app.lastError # Nil
  /\ app.state = "Ready" => app.hasTabs
  /\ app.state = "Setup" => app.hasSetup

\* C26: whenever a tab indexes a collection with a selection index, the index
\* is within the collection's bounds, also after a refresh that made the
\* collection shorter: no key press makes the program index out of range.
C26_IndexInBounds == ~app.panicked

\* the search input of the active tab is active
Searching ==
  /\ app.state = "Ready" /\ app.hasTabs /\ ~app.quit
  /\ \/ app.activeTab = TabViews /\ app.views.searching
     \/ app.activeTab = TabBuilds /\ app.builds.searching

\* the Commands among cmds that ask the remote server
Fetches(cmds) == { c \in BagToSet(cmds) : c.kind # "autoRefreshTick" }

\* C22: while the search input of the active tab is active, no key press
\* dispatches a fetch Command.
C22_SearchNeverFetches ==
  Searching => \A k \in SearchKeys : Fetches(Update(app, KeyMsg(k)).cmds) = {}

\* the model m with the search text and filters of the model n
WithSearchOf(m, n) ==
  [m EXCEPT !.views.filter = n.views.filter,
            !.builds.searchInput = n.builds.searchInput,
            !.builds.filter = n.builds.filter]

\* C30: while the search input of the active tab is active, a character key
\* changes nothing but the search text and the filter; it does not quit,
\* switch the tab or toggle the help overlay.
C30_SearchConsumesCharacters ==
  Searching =>
    \A k \in SearchKeys \cap Typed :
      LET u == Update(app, KeyMsg(k))
      IN /\ WithSearchOf(u.m, app) = app
         /\ u.cmds = NoCmd

\* the builds of g that hold stage data
Enriched(g) == { k \in 1..Len(g.builds) : g.builds[k].Stages # NilList }

\* C24: one GetJob call enriches at most the first StageCap builds, one
\* build after the other; each enrichment makes at most two calls, the
\* second (Blue Ocean) only after the first (wfapi) failed; the call makes at
\* most 1 + 2 * StageCap = 21 requests; and once the job-detail request
\* succeeded, GetJob returns the job and no error, whatever the stage lookups
\* did.
C24_BoundedEnrichment ==
  /\ gj.i <= StageCap
  /\ Enriched(gj) \subseteq 1..gj.i
  /\ gj.pc \in {"wfapi", "blueocean"} => gj.i < Len(gj.builds) /\ gj.i < StageCap
  /\ gj.calls <= 2
  /\ gj.pc = "blueocean" => gj.calls = 1 /\ gj.wfErr # Nil
  /\ gj.requests <= 1 + 2 * EnrichLimit(Len(gj.builds))
  /\ gj.requests <= 21
  /\ (gj.pc = "done" /\ gj.builds # <<>>) => gj.job # Nil /\ gj.err = Nil
  /\ (gj.pc = "done" /\ gj.err # Nil) => gj.requests = 1 /\ gj.job = Nil

\* GetJob returned a job of more than StageCap builds after every stage
\* lookup failed twice: 21 requests, no error
C24_AllLookupsFailed ==
  /\ gj.pc = "done"
  /\ Len(gj.builds) > StageCap
  /\ gj.stageErr /\ Enriched(gj) = {}
  /\ gj.requests = 21
  /\ gj.i = StageCap
  /\ gj.job # Nil /\ gj.err = Nil

====
